---- MODULE Spec2Model ----
(***************************************************************************)
(* IMDBCrawler: the four crawler variants (requests + thread pool, asyncio *)
(* Playwright, sequential Playwright, Selenium) over one pending-key file. *)
(* The pending-key file is a sequence of lines, a line is a sequence of    *)
(* one-character strings without its terminator.  One task is one entry of *)
(* the list returned by the load at the start of the run.                  *)
(***************************************************************************)
EXTENDS Integers, Sequences, FiniteSets, TLC

(* ------------------------------ bounds --------------------------------- *)
MaxLen == 3          \* lines in the pending-key file at the start
CONCURRENCY == 2     \* configured worker-pool size / semaphore permits
RETRY_COUNT == 2     \* RETRY_COUNT / retries / retry
MaxFiles == 3         \* HTML files in the directory handed to compress
LiveLen == 2         \* lines in the file at the start of a run that is
                     \* followed to its end

(* ------------------------------ strings -------------------------------- *)
K1 == <<"t", "t", "0", "0", "0", "0", "0", "0", "1">>
K2 == <<"t", "t", "0", "0", "0", "0", "0", "0", "2">>
K2Pad == <<" ">> \o K2 \o <<" ">>
Junk == <<"n", "o", "t", "a", "k", "e", "y">>
LineAlphabet == {K1, K2Pad, Junk}

IsSpace(c) == c = " "

RECURSIVE lstrip(_)
lstrip(s) == IF s # <<>> /\ IsSpace(Head(s)) THEN lstrip(Tail(s)) ELSE s

RECURSIVE rstrip(_)
rstrip(s) ==
  IF s # <<>> /\ IsSpace(s[Len(s)]) THEN rstrip(SubSeq(s, 1, Len(s) - 1)) ELSE s

strip(s) == rstrip(lstrip(s))

startswith_tt(s) == Len(s) >= 2 /\ s[1] = "t" /\ s[2] = "t"

Range(s) == {s[i] : i \in 1..Len(s)}

SeqsUpTo(S, n) == UNION {[1..m -> S] : m \in 0..n}

Prefixes(s) == {SubSeq(s, 1, n) : n \in 0..(Len(s) - 1)}

(* ----------------------------- variants -------------------------------- *)
Variants == {"request", "multi", "single", "selenium"}
Concurrent == {"request", "multi"}

(* key-format predicate of the variant's loader *)
IsKeyLine(v, line) ==
  IF v \in {"single", "selenium"}
    THEN startswith_tt(strip(line)) /\ Len(strip(line)) >= 9
    ELSE startswith_tt(strip(line))

(* read_ids / read_imdb_ids_from_file *)
read_ids(v, f) ==
  LET kept == SelectSeq(f, LAMBDA line : IsKeyLine(v, line))
  IN  [i \in 1..Len(kept) |-> strip(kept[i])]

(* as remove_lines, but only the first line equal to imdb_id is dropped *)
remove_first_line(lines, imdb_id) ==
  LET hits == {i \in 1..Len(lines) : strip(lines[i]) = imdb_id}
  IN  IF hits = {} THEN lines
      ELSE LET first == CHOOSE i \in hits : \A j \in hits : i <= j
           IN  SubSeq(lines, 1, first - 1) \o SubSeq(lines, first + 1, Len(lines))

(* new_lines = [line for line in lines if line.strip() != imdb_id] *)
remove_lines(lines, imdb_id) == SelectSeq(lines, LAMBDA line : strip(line) # imdb_id)

KeysOf(f) == {strip(f[i]) : i \in 1..Len(f)}

(* the keys the server may answer with nothing but challenge pages *)
BlockableKeys == {K1}

AllKeys == {strip(l) : l \in {x \in LineAlphabet : startswith_tt(strip(x))}}

(* ------------------------- page content kinds -------------------------- *)
(* page: the target page; waf: a short interstitial carrying the awswaf /  *)
(* challenge-container marker; wafsum: a long page carrying the marker and *)
(* the summaries block; captcha: a short page with a captcha prompt; bare: *)
(* a long page of the site on which the summaries block never appears.     *)
Contents == {"page", "waf", "wafsum", "captcha", "bare"}
LoadOutcomes == Contents \cup {"err"}

HasWafMarker(c) == c \in {"waf", "wafsum"}
HasCaptcha(c) == c = "captcha"
HasSummaries(c) == c \in {"page", "wafsum"}
IsLong(c) == c \in {"page", "wafsum", "bare"}

(* is_challenge_page of the variant *)
is_challenge_page(v, c) ==
  IF v = "request" THEN HasWafMarker(c) \/ HasCaptcha(c) ELSE HasWafMarker(c)

(* is_content_valid (Selenium) *)
is_content_valid(c) == IsLong(c) /\ ~HasCaptcha(c)

(* ---------------------- html as text (Selenium) ------------------------ *)
Upper == <<"A", "B", "C", "D", "E", "F", "G", "H", "I", "J", "K", "L", "M",
           "N", "O", "P", "Q", "R", "S", "T", "U", "V", "W", "X", "Y", "Z">>
Lower == <<"a", "b", "c", "d", "e", "f", "g", "h", "i", "j", "k", "l", "m",
           "n", "o", "p", "q", "r", "s", "t", "u", "v", "w", "x", "y", "z">>

lower_char(c) ==
  IF \E i \in 1..26 : Upper[i] = c
    THEN Lower[CHOOSE i \in 1..26 : Upper[i] = c]
    ELSE c

(* the text as it is, letter case kept *)
same_case(s) == s

(* str.lower() *)
lower(s) == [i \in 1..Len(s) |-> lower_char(s[i])]

(* sub in s *)
contains(s, sub) ==
  \E i \in 1..(Len(s) - Len(sub) + 1) : SubSeq(s, i, i + Len(sub) - 1) = sub

(* the length below which is_content_valid refuses a page: len(html) < 10000 *)
MinLength == 10000

w_imdb == <<"i", "m", "d", "b">>
w_summary == <<"s", "u", "m", "m", "a", "r", "y">>
w_plot == <<"p", "l", "o", "t">>
w_synopsis == <<"s", "y", "n", "o", "p", "s", "i", "s">>
w_captcha == <<"c", "a", "p", "t", "c", "h", "a">>
w_access_denied == <<"a", "c", "c", "e", "s", "s", " ", "d", "e", "n", "i", "e", "d">>

(* A page is its leading text followed by pad characters of markup in which
   none of the words looked for occurs: html = [text, pad]. *)
html_len(html) == Len(html.text) + html.pad
html_lower(html) == [text |-> lower(html.text), pad |-> html.pad]
html_contains(html, sub) == contains(html.text, sub)

(* is_content_valid(html, imdb_id): the length test, the keyword search, the
   negative test, and the keyword result, which only selects the warning *)
is_content_valid_html(html, imdb_id) ==
  IF html_len(html) < MinLength THEN FALSE
  ELSE LET keywords == {w_imdb, imdb_id, w_summary, w_plot, w_synopsis}
           found == \E kw \in keywords : html_contains(html_lower(html), kw)
       IN  IF \/ html_contains(html_lower(html), w_captcha)
              \/ html_contains(html_lower(html), w_access_denied)
             THEN FALSE
           ELSE IF ~found THEN TRUE
           ELSE TRUE

(* ------------------------------ state ---------------------------------- *)
VARIABLES
  variant,     \* which crawler script runs
  file,        \* the pending-key file on disk
  artifact,    \* output directory: the keys that have an artifact file
  failedFile,  \* failure report on disk: sequence of keys, or Absent
  phase,       \* "init", "setup", "running", "done", "fatal", "crashed"
  ids,         \* keys returned by the load of this run
  pc,          \* per task: "idle", "queued", "save", "remove", "rm_write",
               \*           "failed", "done", "skipped"
  attempt,     \* per task: iterations of the retry loop started so far
  blocked,     \* keys for which the server answers every load with
               \*           challenge content
  removeBegun, \* keys for which a remove was started in this run
  rmOut,       \* per task: result of the remove of the iteration in progress:
               \* "none", "ok", "err"
  lines,       \* per task: lines read by remove (request variant)
  res,         \* per task: value returned by the worker: "none", "ok", "fail"
  lock,        \* threading.Lock of the request variant: 0 or the holder
  permits,     \* free pool threads / semaphore permits
  alive,       \* Selenium: the driver session answers current_url
  failed,      \* failed ids collected by the run
  crashMid,    \* keys that were between save and remove when the run crashed
  open,        \* sessions that are open: 0 is the browser / driver of the
               \* run, t the context / HTTP session of task t
  slept,       \* per task: the last backoff sleep of the retry loop
  pageFaults,  \* environment: new_page / route can raise after the context
               \* of a task was created
  call         \* a function applied on its own: its inputs and its result

vars == <<call, pageFaults, variant, blocked, file, artifact, failedFile,
          phase, ids, pc, attempt, slept, removeBegun, rmOut, lines, res, lock,
          permits, alive, failed, crashMid, open>>

taskVars == <<pc, attempt, slept, removeBegun, rmOut, lines, res>>

Tasks == 1..MaxLen
Absent == <<<<"absent">>>>

(* no backoff sleep so far; no function applied on its own *)
NoSleep == [n |-> 0, lo |-> 0, hi |-> 0]
NoCall == [fn |-> "none"]

NoTasks ==
  /\ pc = [t \in Tasks |-> "idle"]
  /\ attempt = [t \in Tasks |-> 0]
  /\ slept = [t \in Tasks |-> NoSleep]
  /\ removeBegun = {}
  /\ rmOut = [t \in Tasks |-> "none"]
  /\ lines = [t \in Tasks |-> <<>>]
  /\ res = [t \in Tasks |-> "none"]

(* process memory is gone: every per-task variable back to its initial value *)
ResetTasks ==
  /\ pc' = [t \in Tasks |-> "idle"]
  /\ attempt' = [t \in Tasks |-> 0]
  /\ slept' = [t \in Tasks |-> NoSleep]
  /\ removeBegun' = {}
  /\ rmOut' = [t \in Tasks |-> "none"]
  /\ lines' = [t \in Tasks |-> <<>>]
  /\ res' = [t \in Tasks |-> "none"]

(* the failure report an earlier run left behind *)
StaleReport == <<K2>>

(* the state at the start of a run: reports are the failure reports that may
   be on disk, faults the values of pageFaults *)
Start(reports, faults) ==
  /\ variant \in Variants
  /\ file \in SeqsUpTo(LineAlphabet, MaxLen)
  /\ blocked \in SUBSET (Range(read_ids(variant, file)) \cap BlockableKeys)
  /\ artifact = {}
  /\ failedFile \in reports
  /\ phase = "init"
  /\ ids = <<>>
  /\ NoTasks
  /\ lock = 0
  /\ permits = 0
  /\ alive = FALSE
  /\ failed = <<>>
  /\ crashMid = {}
  /\ open = {}
  /\ pageFaults \in faults
  /\ call = NoCall

(* a first run in an environment where new_page and route do not raise *)
Init == Start({Absent}, {FALSE})

(* any run: a report of an earlier run may be on disk, new_page and route
   may raise *)
FaultInit == Start({Absent, StaleReport}, BOOLEAN)

(* --------------------------- shared helpers ---------------------------- *)
Loaded == 1..Len(ids)
Active(t) == pc[t] \in {"save", "remove", "rm_write", "failed"}
AllDone == \A t \in Loaded : pc[t] \in {"done", "skipped"}

(* as session_of, every worker on the session of the run *)
session_shared(v, t) == 0

(* the session task t fetches on: request: session = requests.Session(), a
   local of fetch_page; multi: context = await self.create_context(), a
   local of fetch_one; single and selenium: self.page / self.driver, the
   one session of the run *)
session_of(v, t) == IF v \in Concurrent THEN t ELSE 0

(* ThreadPoolExecutor(max_workers) has an idle thread / the semaphore has a
   permit *)
HasPermitAlways(p) == TRUE
HasPermitNever(p) == FALSE
HasPermit(p) == p > 0

(* threading.Lock: acquire succeeds only when nobody holds it *)
LockFreeAlways(l) == TRUE
LockFree(l) == l = 0

(* for attempt in range(1, RETRY_COUNT + 1): RETRY_COUNT iterations;
   for attempt in range(self.retries + 1): retries + 1 iterations *)
last_attempt(v) == IF v = "selenium" THEN RETRY_COUNT + 1 ELSE RETRY_COUNT
more_attempts_off(v, a) == a <= last_attempt(v)
more_attempts(v, a) == a < last_attempt(v)

(* content carrying a marker of an anti-bot interstitial: challenge markup
   or a CAPTCHA prompt *)
ChallengeContent(o) == o \in Contents /\ (HasWafMarker(o) \/ HasCaptcha(o))

(* what a load of a key can return: anything, or only challenge content when
   the server blocks the key *)
Responses(b) == IF b THEN {o \in Contents : ChallengeContent(o)} ELSE LoadOutcomes

Ok == "ok"
Fail == "fail"
Abort == "abort"
Again == "again"

(* the backoff of the variant's except branch, in tenths of a second:
   request  time.sleep(3 + attempt * 2 + random.uniform(0.5, 2.5))
   multi    wait = 2 + attempt * 2 + random.uniform(0.5, 1.5)
   single   wait_sec = 3 + attempt * 2; jitter = random.uniform(0.5, 2.5)
   selenium wait_time = random.uniform(2.0, 5.0) *)
backoffBase(v) ==
  CASE v = "request" -> 30 [] v = "multi" -> 20 [] v = "single" -> 30
    [] v = "selenium" -> 0

backoffIncrement(v) == IF v = "selenium" THEN 0 ELSE 20

jitterRange(v) ==
  CASE v = "request" -> <<5, 25>> [] v = "multi" -> <<5, 15>>
    [] v = "single" -> <<5, 25>> [] v = "selenium" -> <<20, 50>>

(* the sleep after the failure of iteration n: a duration drawn uniformly
   from lo..hi *)
backoff(v, n) ==
  [n |-> n,
   lo |-> backoffBase(v) + n * backoffIncrement(v) + jitterRange(v)[1],
   hi |-> backoffBase(v) + n * backoffIncrement(v) + jitterRange(v)[2]]

(* the except branch sleeps whether or not an iteration is left (request:
   the sleep is not guarded), or only if attempt < RETRY_COUNT *)
sleeps_after_last(v) == v = "request"

(* fetch_page: session.get, status check, challenge check *)
request_attempt(o) ==
  IF o # "err" /\ ~is_challenge_page("request", o) THEN Ok ELSE Fail

(* fetch_one: goto, wait_for_selector("#summaries") (raises when the block
   never appears), challenge check, one reload and re-check *)
multi_attempt(o1, o2) ==
  IF o1 = "err" THEN Fail
  ELSE IF ~HasSummaries(o1) THEN Fail
  ELSE IF ~is_challenge_page("multi", o1) THEN Ok
  ELSE IF o2 = "err" THEN Fail
  ELSE IF is_challenge_page("multi", o2) THEN Fail
  ELSE Ok

(* fetch_imdb_page: goto, wait_for_selector in its own try (not fatal),
   challenge check, reload, wait_for_selector (raises), re-check *)
single_attempt(o1, o2) ==
  IF o1 = "err" THEN Fail
  ELSE IF ~is_challenge_page("single", o1) THEN Ok
  ELSE IF o2 = "err" THEN Fail
  ELSE IF ~HasSummaries(o2) \/ is_challenge_page("single", o2) THEN Fail
  ELSE Ok

(* as selenium_except, without the return when the restart fails *)
selenium_except_retry(dead, restartOk) == Fail

(* save_imdb_html, except branch: health check (current_url); a dead session
   is restarted; if the restart fails the function returns False *)
selenium_except(dead, restartOk) ==
  IF dead /\ ~restartOk THEN Abort ELSE Fail

(* save_imdb_html: driver.get, page_source, is_content_valid; invalid content
   is followed by driver.refresh() and time.sleep(3): the loop goes on
   without passing through the except branch *)
selenium_attempt(o, refreshOk, dead, restartOk) ==
  IF o = "err" THEN selenium_except(dead, restartOk)
  ELSE IF is_content_valid(o) THEN Ok
  ELSE IF refreshOk THEN Again
  ELSE selenium_except(dead, restartOk)

(* the outcomes of one iteration of the variant's retry loop, over every
   response of the server (b: the key is blocked) and every fault of the
   session *)
request_results(b) == {request_attempt(o) : o \in Responses(b)}
multi_results(b) == {multi_attempt(o1, o2) : o1, o2 \in Responses(b)}
single_results(b) == {single_attempt(o1, o2) : o1, o2 \in Responses(b)}
selenium_results(b) ==
  {selenium_attempt(o, x[1], x[2], x[3]) :
     o \in Responses(b), x \in BOOLEAN \X BOOLEAN \X BOOLEAN}

attempt_results(v, b) ==
  CASE v = "request" -> request_results(b)
    [] v = "multi" -> multi_results(b)
    [] v = "single" -> single_results(b)
    [] v = "selenium" -> selenium_results(b)

(* the retry loop of a key (b: blocked) from iteration a on, s being the
   last backoff sleep so far; results: how the loop is left (content
   captured, budget exhausted, or the Selenium early return), in which
   iteration, and the last backoff sleep *)
RECURSIVE fetch_loop(_, _, _, _)

(* an iteration ended in the except branch: backoff sleep, then the next
   iteration if the range has one *)
after_failure(v, a, b, s) ==
  IF more_attempts(v, a)
    THEN fetch_loop(v, a + 1, b, backoff(v, a))
    ELSE {[kind |-> "fail", attempt |-> a,
           slept |-> IF sleeps_after_last(v) THEN backoff(v, a) ELSE s]}

(* an iteration ended without an exception and without a page to save: the
   next iteration if the range has one, no backoff sleep *)
after_refresh(v, a, b, s) ==
  IF more_attempts(v, a)
    THEN fetch_loop(v, a + 1, b, s)
    ELSE {[kind |-> "fail", attempt |-> a, slept |-> s]}

fetch_loop(v, a, b, s) ==
  UNION {CASE r = Fail -> after_failure(v, a, b, s)
           [] r = Again -> after_refresh(v, a, b, s)
           [] OTHER -> {[kind |-> r, attempt |-> a, slept |-> s]} :
         r \in attempt_results(v, b)}

(* outcomes of the write half of remove: <<file on disk afterwards, result>>.
   cur: file on disk now, lns: lines read before.  open(path, "w") truncates
   the file before writelines runs, so an error there leaves a strict prefix
   of new_lines on disk; an error opening the file leaves it as it was. *)
remove_write(cur, lns, imdb_id) ==
  LET new_lines == remove_lines(lns, imdb_id)
  IN  {<<new_lines, "ok">>, <<cur, "err">>}
        \cup {<<p, "err">> : p \in Prefixes(new_lines)}

(* with open(path, "w") as f: f.write(content): creates <imdb_id>.html or
   replaces the one that is there *)
write_artifact(store, imdb_id) == store \cup {imdb_id}

(* if failed: open(failed_file, "w").write("\n".join(failed)) *)
write_report(old, failed_ids) == IF failed_ids = <<>> THEN old ELSE failed_ids

(* the task leaves its retry loop with result r: content captured ("ok"),
   budget exhausted ("fail") or the Selenium early return ("abort") *)
leave_loop(t, r) ==
  /\ attempt' = [attempt EXCEPT ![t] = r.attempt]
  /\ slept' = [slept EXCEPT ![t] = r.slept]
  /\ pc' = [pc EXCEPT ![t] = IF r.kind = "ok" THEN "save" ELSE "failed"]

(* as return, but a failure ends the run's loop over the keys: the keys not
   yet dispatched are never processed *)
return_abort(t, r) ==
  /\ pc' = [u \in Tasks |->
              IF u = t THEN "done"
              ELSE IF r = "fail" /\ pc[u] = "queued" THEN "skipped"
              ELSE pc[u]]
  /\ res' = [res EXCEPT ![t] = r]
  /\ attempt' = [attempt EXCEPT ![t] = 0]
  /\ slept' = [slept EXCEPT ![t] = NoSleep]

(* the task's call returns r ("ok": None / True, "fail": imdb_id / False);
   its locals are gone *)
return(t, r) ==
  /\ pc' = [pc EXCEPT ![t] = "done"]
  /\ res' = [res EXCEPT ![t] = r]
  /\ attempt' = [attempt EXCEPT ![t] = 0]
  /\ slept' = [slept EXCEPT ![t] = NoSleep]

(* ----------------------------- run start ------------------------------- *)
(* as start_phase, without the early return *)
start_phase_go(v, loaded) == IF v = "request" THEN "running" ELSE "setup"

(* run / main: if not ids: return; otherwise the pool is created (request) or
   the backend is set up *)
start_phase(v, loaded) ==
  IF loaded = <<>> THEN "done"
  ELSE IF v = "request" THEN "running" ELSE "setup"

(* run / main: ids = read_ids(): the lines of the file that hold a key, or
   [] when the file cannot be opened; if not ids: return *)
load ==
  /\ phase = "init"
  /\ \E readable \in BOOLEAN :
       LET loaded == IF readable THEN read_ids(variant, file) ELSE <<>> IN
         /\ ids' = loaded
         /\ pc' = [t \in Tasks |->
                     IF t <= Len(loaded) THEN "queued" ELSE "idle"]
         /\ phase' = start_phase(variant, loaded)
         /\ permits' = IF loaded # <<>> /\ variant = "request"
                         THEN CONCURRENCY ELSE 0
  /\ crashMid' = {}
  /\ UNCHANGED <<call, pageFaults, open, variant, blocked, file, artifact, failedFile, attempt, slept,
                 removeBegun, rmOut, lines, res, lock, alive, failed>>

(* as setup_phase, the result of the initialisation not looked at *)
setup_phase_go(ok) == "running"

(* batch_process: if not self.init_browser(): return 0, [], False; multi and
   single: the exception of setup_browser leaves main / run *)
setup_phase(ok) == IF ok THEN "running" ELSE "fatal"

(* setup_browser / init_browser: the backend starts, or cannot start.  When
   it cannot, what was started before the failing call stays open (single:
   the browser when new_context or new_page raises; selenium: the driver
   when makedirs or chdir raises) or nothing was started *)
setup_browser ==
  /\ phase = "setup"
  /\ \E ok \in BOOLEAN, left \in BOOLEAN :
       /\ phase' = setup_phase(ok)
       /\ permits' = IF ok /\ variant = "multi" THEN CONCURRENCY ELSE 0
       /\ alive' = (ok /\ variant = "selenium")
       /\ open' = IF ok \/ (left /\ variant \in {"single", "selenium"})
                    THEN {0} ELSE {}
  /\ UNCHANGED <<call, pageFaults, variant, blocked, file, artifact, failedFile, ids, taskVars,
                 lock, failed, crashMid>>

(* ------------------- request variant (thread pool) --------------------- *)
(* executor.submit(self.worker, imdb_id): a pool thread takes the next task
   from the executor's queue and runs worker up to the end of fetch_page's
   retry loop *)
request_worker(t) ==
  /\ variant = "request" /\ phase = "running"
  /\ pc[t] = "queued"
  /\ \A u \in 1..(t - 1) : pc[u] # "queued"
  /\ HasPermit(permits)
  /\ permits' = permits - 1
  /\ open' = open \cup {session_of(variant, t)}
  /\ \E r \in fetch_loop(variant, 1, ids[t] \in blocked, NoSleep) : leave_loop(t, r)
  /\ UNCHANGED <<call, pageFaults, variant, blocked, file, artifact, failedFile, phase, ids,
                 removeBegun, rmOut, lines, res, lock, alive, failed,
                 crashMid>>

(* fetch_page: return None; worker: return imdb_id; run: failed.append *)
request_give_up(t) ==
  /\ variant = "request" /\ phase = "running"
  /\ pc[t] = "failed"
  /\ return(t, "fail")
  /\ permits' = permits + 1
  /\ failed' = Append(failed, ids[t])
  /\ UNCHANGED <<call, pageFaults, open, variant, blocked, file, artifact, failedFile, phase, ids,
                 removeBegun, rmOut, lines, lock, alive, crashMid>>

(* worker: save_html(html, imdb_id); an exception makes it return imdb_id *)
request_save_html(t) ==
  /\ variant = "request" /\ phase = "running"
  /\ pc[t] = "save"
  /\ \E ok \in BOOLEAN :
       IF ok
         THEN /\ artifact' = write_artifact(artifact, ids[t])
              /\ pc' = [pc EXCEPT ![t] = "remove"]
              /\ UNCHANGED <<attempt, slept, res, permits, failed>>
         ELSE /\ return(t, "fail")
              /\ permits' = permits + 1
              /\ failed' = Append(failed, ids[t])
              /\ UNCHANGED artifact
  /\ UNCHANGED <<call, pageFaults, open, variant, blocked, file, failedFile, phase, ids, removeBegun,
                 rmOut, lines, lock, alive, crashMid>>

(* remove_id: with self.lock: open(path, "r"); lines = f.readlines().
   An error here leaves the with block: the lock is released, worker
   returns None *)
request_remove_read(t) ==
  /\ variant = "request" /\ phase = "running"
  /\ pc[t] = "remove"
  /\ LockFree(lock)
  /\ \E ok \in BOOLEAN :
       IF ok
         THEN /\ lock' = t
              /\ lines' = [lines EXCEPT ![t] = file]
              /\ pc' = [pc EXCEPT ![t] = "rm_write"]
              /\ UNCHANGED <<attempt, slept, rmOut, res, permits>>
         ELSE /\ rmOut' = [rmOut EXCEPT ![t] = "err"]
              /\ return(t, "ok")
              /\ permits' = permits + 1
              /\ UNCHANGED <<lock, lines>>
  /\ removeBegun' = removeBegun \cup {ids[t]}
  /\ UNCHANGED <<call, pageFaults, open, variant, blocked, file, artifact, failedFile, phase, ids,
                 alive, failed, crashMid>>

(* remove_id: filter, open(path, "w"), writelines, release the lock;
   worker returns None whatever remove_id did *)
request_remove_write(t) ==
  /\ variant = "request" /\ phase = "running"
  /\ pc[t] = "rm_write"
  /\ \E w \in remove_write(file, lines[t], ids[t]) :
       /\ file' = w[1]
       /\ rmOut' = [rmOut EXCEPT ![t] = w[2]]
  /\ lock' = 0
  /\ lines' = [lines EXCEPT ![t] = <<>>]
  /\ return(t, "ok")
  /\ permits' = permits + 1
  /\ UNCHANGED <<call, pageFaults, open, variant, blocked, artifact, failedFile, phase, ids,
                 removeBegun, alive, failed, crashMid>>

(* run: all futures collected; the failure report is written if any failed *)
request_run ==
  /\ variant = "request" /\ phase = "running"
  /\ AllDone
  /\ failedFile' = write_report(failedFile, failed)
  /\ phase' = "done"
  /\ UNCHANGED <<call, pageFaults, open, variant, blocked, file, artifact, ids, taskVars, lock,
                 permits, alive, failed, crashMid>>

(* -------------------- multi variant (asyncio tasks) -------------------- *)
(* Between two awaits a coroutine runs alone on the event loop; an action is
   a stretch of fetch_one whose awaits touch nothing shared. *)

(* fetch_one: async with semaphore; create_context / new_page / route (an
   exception goes to the outer except: return imdb_id); then the retry loop
   up to the first captured html or to its end *)
multi_fetch_one(t) ==
  /\ variant = "multi" /\ phase = "running"
  /\ pc[t] = "queued"
  /\ \A u \in 1..(t - 1) : pc[u] # "queued"
  /\ HasPermit(permits)
  /\ \E ctx \in {"ok", "no_context"}
                  \cup (IF pageFaults THEN {"no_page"} ELSE {}) :
       IF ctx = "ok"
         THEN /\ \E r \in fetch_loop(variant, 1, ids[t] \in blocked, NoSleep) :
                   leave_loop(t, r)
              /\ permits' = permits - 1
              /\ open' = open \cup {session_of(variant, t)}
              /\ UNCHANGED res
         ELSE /\ return(t, "fail")
              /\ open' = IF ctx = "no_page"
                           THEN open \cup {session_of(variant, t)} ELSE open
              /\ UNCHANGED permits
  /\ UNCHANGED <<call, pageFaults, variant, blocked, file, artifact, failedFile, phase, ids,
                 removeBegun, rmOut, lines, lock, alive, failed, crashMid>>

(* fetch_one, after the loop: await context.close(); return imdb_id (an
   exception of close goes to the outer except: return imdb_id) *)
multi_give_up(t) ==
  /\ variant = "multi" /\ phase = "running"
  /\ pc[t] = "failed"
  /\ return(t, "fail")
  /\ permits' = permits + 1
  /\ open' = open \ {session_of(variant, t)}
  /\ UNCHANGED <<call, pageFaults, variant, blocked, file, artifact, failedFile, phase, ids,
                 removeBegun, rmOut, lines, lock, alive, failed, crashMid>>

(* fetch_one: await self.save_html(html, imdb_id); an exception is caught by
   the loop's except: the loop goes on *)
multi_save_html(t) ==
  /\ variant = "multi" /\ phase = "running"
  /\ pc[t] = "save"
  /\ \E ok \in BOOLEAN :
       IF ok
         THEN /\ artifact' = write_artifact(artifact, ids[t])
              /\ pc' = [pc EXCEPT ![t] = "remove"]
              /\ UNCHANGED <<attempt, slept>>
         ELSE /\ \E r \in after_failure(variant, attempt[t], ids[t] \in blocked, slept[t]) :
                   leave_loop(t, r)
              /\ UNCHANGED artifact
  /\ UNCHANGED <<call, pageFaults, open, variant, blocked, file, failedFile, phase, ids, removeBegun,
                 rmOut, lines, res, lock, permits, alive, failed, crashMid>>

(* fetch_one: self.remove_id_from_file(imdb_id) (synchronous: read, filter,
   write with no await in between), await context.close(), return None; an
   exception of close is caught by the loop's except like any other *)
multi_remove_close(t) ==
  /\ variant = "multi" /\ phase = "running"
  /\ pc[t] = "remove"
  /\ \E w \in remove_write(file, file, ids[t]), closeOk \in BOOLEAN :
       /\ file' = w[1]
       /\ IF closeOk
            THEN /\ rmOut' = [rmOut EXCEPT ![t] = w[2]]
                 /\ return(t, "ok")
                 /\ permits' = permits + 1
                 /\ open' = open \ {session_of(variant, t)}
            ELSE /\ rmOut' = [rmOut EXCEPT ![t] = "none"]
                 /\ \E r \in after_failure(variant, attempt[t], ids[t] \in blocked, slept[t]) :
                      leave_loop(t, r)
                 /\ UNCHANGED <<res, permits, open>>
  /\ removeBegun' = removeBegun \cup {ids[t]}
  /\ UNCHANGED <<call, pageFaults, variant, blocked, artifact, failedFile, phase, ids, lines,
                 lock, alive, failed, crashMid>>

(* failed_ids = [r for r in results if r]: gather returns in task order *)
failed_ids_in_order(idl, resl) ==
  LET RECURSIVE walk(_)
      walk(i) == IF i > Len(idl) THEN <<>>
                 ELSE (IF resl[i] = "fail" THEN <<idl[i]>> ELSE <<>>) \o walk(i + 1)
  IN  walk(1)

(* main: results = await asyncio.gather of the tasks; close_browser (an
   exception leaves main before the report); the report is written if any
   failed *)
multi_main ==
  /\ variant = "multi" /\ phase = "running"
  /\ AllDone
  /\ failed' = failed_ids_in_order(ids, res)
  /\ \E closeOk \in BOOLEAN :
       IF closeOk
         THEN /\ failedFile' = write_report(failedFile, failed')
              /\ phase' = "done"
              /\ open' = {}
         ELSE /\ phase' = "fatal"
              /\ UNCHANGED <<failedFile, open>>
  /\ UNCHANGED <<call, pageFaults, variant, blocked, file, artifact, ids, taskVars, lock,
                 permits, alive, crashMid>>

(* ---------------- single variant (sequential Playwright) --------------- *)
(* fetch_all_sequential: next id of the for loop; fetch_imdb_page runs its
   retry loop up to the first captured page or to its end *)
single_fetch_imdb_page(t) ==
  /\ variant = "single" /\ phase = "running"
  /\ pc[t] = "queued"
  /\ \A u \in 1..(t - 1) : pc[u] = "done"
  /\ \E r \in fetch_loop(variant, 1, ids[t] \in blocked, NoSleep) : leave_loop(t, r)
  /\ UNCHANGED <<call, pageFaults, open, variant, blocked, file, artifact, failedFile, phase, ids,
                 removeBegun, rmOut, lines, res, lock, permits, alive, failed,
                 crashMid>>

(* fetch_imdb_page: return False; fetch_all_sequential:
   failed_ids.append(imdb_id) *)
single_give_up(t) ==
  /\ variant = "single" /\ phase = "running"
  /\ pc[t] = "failed"
  /\ return(t, "fail")
  /\ failed' = Append(failed, ids[t])
  /\ UNCHANGED <<call, pageFaults, open, variant, blocked, file, artifact, failedFile, phase, ids,
                 removeBegun, rmOut, lines, lock, permits, alive, crashMid>>

(* fetch_all_sequential: self.save_html(imdb_id) writes page.content(); an
   exception goes to the loop's except: failed_ids.append(imdb_id) *)
single_save_html(t) ==
  /\ variant = "single" /\ phase = "running"
  /\ pc[t] = "save"
  /\ \E ok \in BOOLEAN :
       IF ok
         THEN /\ artifact' = write_artifact(artifact, ids[t])
              /\ pc' = [pc EXCEPT ![t] = "remove"]
              /\ UNCHANGED <<attempt, slept, res, failed>>
         ELSE /\ return(t, "fail")
              /\ failed' = Append(failed, ids[t])
              /\ UNCHANGED artifact
  /\ UNCHANGED <<call, pageFaults, open, variant, blocked, file, failedFile, phase, ids, removeBegun,
                 rmOut, lines, lock, permits, alive, crashMid>>

(* fetch_all_sequential: self.remove_id_from_file(imdb_id); its result
   (True / False) is not looked at *)
single_remove_id_from_file(t) ==
  /\ variant = "single" /\ phase = "running"
  /\ pc[t] = "remove"
  /\ \E w \in remove_write(file, file, ids[t]) :
       /\ file' = w[1]
       /\ rmOut' = [rmOut EXCEPT ![t] = w[2]]
  /\ return(t, "ok")
  /\ removeBegun' = removeBegun \cup {ids[t]}
  /\ UNCHANGED <<call, pageFaults, open, variant, blocked, artifact, failedFile, phase, ids, lines,
                 lock, permits, alive, failed, crashMid>>

(* fetch_all_sequential: close_browser (an exception leaves run before the
   report); run: the report is written if any failed *)
single_run ==
  /\ variant = "single" /\ phase = "running"
  /\ AllDone
  /\ \E closeOk \in BOOLEAN :
       IF closeOk
         THEN /\ failedFile' = write_report(failedFile, failed)
              /\ phase' = "done"
              /\ open' = {}
         ELSE /\ phase' = "fatal"
              /\ UNCHANGED <<failedFile, open>>
  /\ UNCHANGED <<call, pageFaults, variant, blocked, file, artifact, ids, taskVars, lock,
                 permits, alive, failed, crashMid>>

(* ---------------------- selenium variant (sequential) ------------------ *)
(* batch_process: next id of the for loop; health check; a dead session is
   restarted, and if that fails the loop breaks: the ids left are never
   processed.  Then save_imdb_html runs its retry loop up to the first valid
   page source, to its end, or to the early return *)
selenium_batch_process(t) ==
  /\ variant = "selenium" /\ phase = "running"
  /\ pc[t] = "queued"
  /\ \A u \in 1..(t - 1) : pc[u] = "done"
  /\ \E up \in {x \in BOOLEAN : x => alive}, restartOk \in BOOLEAN :
       IF ~up /\ ~restartOk
         THEN /\ pc' = [u \in Tasks |-> IF pc[u] = "queued" THEN "skipped" ELSE pc[u]]
              /\ alive' = FALSE
              /\ open' = {}
              /\ UNCHANGED <<attempt, slept>>
         ELSE \E r \in fetch_loop(variant, 1, ids[t] \in blocked, NoSleep) :
                /\ leave_loop(t, r)
                /\ alive' = (r.kind # "abort")
                /\ open' = IF r.kind = "abort" THEN {} ELSE {0}
  /\ UNCHANGED <<call, pageFaults, variant, blocked, file, artifact, failedFile, phase, ids,
                 removeBegun, rmOut, lines, res, lock, permits, failed,
                 crashMid>>

(* save_imdb_html: return False; batch_process: failed_ids.append(imdb_id) *)
selenium_give_up(t) ==
  /\ variant = "selenium" /\ phase = "running"
  /\ pc[t] = "failed"
  /\ return(t, "fail")
  /\ failed' = Append(failed, ids[t])
  /\ UNCHANGED <<call, pageFaults, open, variant, blocked, file, artifact, failedFile, phase, ids,
                 removeBegun, rmOut, lines, lock, permits, alive, crashMid>>

(* save_imdb_html: open(filename, "w").write(html); an exception goes to the
   loop's except: health check, restart, then the loop goes on or the
   function returns False *)
selenium_write_html(t) ==
  /\ variant = "selenium" /\ phase = "running"
  /\ pc[t] = "save"
  /\ \E ok \in BOOLEAN :
       IF ok
         THEN /\ artifact' = write_artifact(artifact, ids[t])
              /\ pc' = [pc EXCEPT ![t] = "remove"]
              /\ UNCHANGED <<attempt, slept, alive, open>>
         ELSE /\ \E dead \in BOOLEAN, restartOk \in BOOLEAN :
                   \E r \in (IF selenium_except(dead, restartOk) = Abort
                               THEN {[kind |-> "abort", attempt |-> attempt[t],
                                      slept |-> slept[t]]}
                               ELSE after_failure(variant, attempt[t], ids[t] \in blocked, slept[t])) :
                     /\ leave_loop(t, r)
                     /\ alive' = (r.kind # "abort")
                     /\ open' = IF r.kind = "abort" THEN {} ELSE {0}
              /\ UNCHANGED artifact
  /\ UNCHANGED <<call, pageFaults, variant, blocked, file, failedFile, phase, ids, removeBegun,
                 rmOut, lines, res, lock, permits, failed, crashMid>>

(* save_imdb_html: self.remove_id_from_file(imdb_id); True or False, the
   function returns True *)
selenium_remove_id_from_file(t) ==
  /\ variant = "selenium" /\ phase = "running"
  /\ pc[t] = "remove"
  /\ \E w \in remove_write(file, file, ids[t]) :
       /\ file' = w[1]
       /\ rmOut' = [rmOut EXCEPT ![t] = w[2]]
  /\ return(t, "ok")
  /\ removeBegun' = removeBegun \cup {ids[t]}
  /\ UNCHANGED <<call, pageFaults, open, variant, blocked, artifact, failedFile, phase, ids, lines,
                 lock, permits, alive, failed, crashMid>>

(* batch_process: finally driver.quit() (its exception is caught); run: the
   report is written if any failed *)
selenium_run ==
  /\ variant = "selenium" /\ phase = "running"
  /\ AllDone
  /\ failedFile' = write_report(failedFile, failed)
  /\ alive' = FALSE
  /\ open' = {}
  /\ phase' = "done"
  /\ UNCHANGED <<call, pageFaults, variant, blocked, file, artifact, ids, taskVars, lock,
                 permits, failed, crashMid>>

(* ------------------------------- summary ------------------------------- *)
(* the three counts printed at the end of run / main.  total: len(imdb_ids);
   failed: len(failed_ids); succeeded: len(imdb_ids) - len(failed_ids), in
   the Selenium variant success_count, incremented by batch_process for
   every save_imdb_html that returned True *)
summary_total == Len(ids)

summary_failed == Len(failed)

summary_succeeded ==
  IF variant = "selenium"
    THEN Cardinality({t \in Loaded : res[t] = "ok"})
    ELSE Len(ids) - Len(failed)

(* -------------------------------- crash -------------------------------- *)
(* the process dies; only the disk survives.  crashMid: keys whose artifact
   was saved and for which no remove of the same key had started.  The next
   run starts from the file left on disk, which is one of the files of Init *)
crash ==
  /\ phase \in {"setup", "running"}
  /\ crashMid' = {ids[t] : t \in {u \in Loaded : pc[u] = "remove"}}
                   \ removeBegun
  /\ phase' = "crashed"
  /\ ids' = <<>>
  /\ ResetTasks
  /\ lock' = 0 /\ permits' = 0 /\ alive' = FALSE /\ failed' = <<>>
  /\ open' = {}
  /\ UNCHANGED <<call, pageFaults, variant, blocked, file, artifact, failedFile>>

Next ==
  \/ load
  \/ setup_browser
  \/ \E t \in Tasks : request_worker(t)
  \/ \E t \in Tasks : request_give_up(t)
  \/ \E t \in Tasks : request_save_html(t)
  \/ \E t \in Tasks : request_remove_read(t)
  \/ \E t \in Tasks : request_remove_write(t)
  \/ request_run
  \/ \E t \in Tasks : multi_fetch_one(t)
  \/ \E t \in Tasks : multi_give_up(t)
  \/ \E t \in Tasks : multi_save_html(t)
  \/ \E t \in Tasks : multi_remove_close(t)
  \/ multi_main
  \/ \E t \in Tasks : single_fetch_imdb_page(t)
  \/ \E t \in Tasks : single_give_up(t)
  \/ \E t \in Tasks : single_save_html(t)
  \/ \E t \in Tasks : single_remove_id_from_file(t)
  \/ single_run
  \/ \E t \in Tasks : selenium_batch_process(t)
  \/ \E t \in Tasks : selenium_give_up(t)
  \/ \E t \in Tasks : selenium_write_html(t)
  \/ \E t \in Tasks : selenium_remove_id_from_file(t)
  \/ selenium_run
  \/ crash

Spec == Init /\ [][Next]_vars

FaultSpec == FaultInit /\ [][Next]_vars

(* ------------------------- runs that are not killed --------------------- *)
(* The process is not killed and every navigation, wait and sleep returns:
   a pool thread / the event loop / the for loop takes the next step of the
   run whenever one can be taken. *)
LiveNext ==
  \/ load
  \/ setup_browser
  \/ \E t \in Tasks : request_worker(t)
  \/ \E t \in Tasks : request_give_up(t)
  \/ \E t \in Tasks : request_save_html(t)
  \/ \E t \in Tasks : request_remove_read(t)
  \/ \E t \in Tasks : request_remove_write(t)
  \/ request_run
  \/ \E t \in Tasks : multi_fetch_one(t)
  \/ \E t \in Tasks : multi_give_up(t)
  \/ \E t \in Tasks : multi_save_html(t)
  \/ \E t \in Tasks : multi_remove_close(t)
  \/ multi_main
  \/ \E t \in Tasks : single_fetch_imdb_page(t)
  \/ \E t \in Tasks : single_give_up(t)
  \/ \E t \in Tasks : single_save_html(t)
  \/ \E t \in Tasks : single_remove_id_from_file(t)
  \/ single_run
  \/ \E t \in Tasks : selenium_batch_process(t)
  \/ \E t \in Tasks : selenium_give_up(t)
  \/ \E t \in Tasks : selenium_write_html(t)
  \/ \E t \in Tasks : selenium_remove_id_from_file(t)
  \/ selenium_run

LiveInit == Init /\ Len(file) <= LiveLen

LiveSpec == LiveInit /\ [][LiveNext]_vars /\ WF_vars(LiveNext)

(* ==================== functions applied on their own ==================== *)
(* a key too short for the length test, and a blank line *)
Short == <<"t", "t", "1">>
Blank == <<" ">>
WideAlphabet == LineAlphabet \cup {Short, Blank}

(* as clean_lines, but only the lines that start with the key prefix are
   written back *)
clean_valid_lines(f, html_ids) ==
  LET original_ids ==
        LET kept == SelectSeq(f, LAMBDA line : startswith_tt(strip(line)))
        IN  [i \in 1..Len(kept) |-> strip(kept[i])]
  IN  SelectSeq(original_ids, LAMBDA id_ : id_ \notin html_ids)

(* clean_data_file: original_ids = [line.strip() for line in f if
   line.strip()]; remaining_ids = [id_ for id_ in original_ids if id_ not in
   html_ids] *)
clean_lines(f, html_ids) ==
  LET original_ids ==
        LET kept == SelectSeq(f, LAMBDA line : strip(line) # <<>>)
        IN  [i \in 1..Len(kept) |-> strip(kept[i])]
  IN  SelectSeq(original_ids, LAMBDA id_ : id_ \notin html_ids)

(* names in the HTML directory: the artifact <imdb_id>.html of a crawler, and
   other files found there *)
DotHtml == <<".", "h", "t", "m", "l">>
F_Junk == Junk \o DotHtml
F_K2Upper == K2 \o <<".", "H", "T", "M", "L">>
OtherNames == {F_Junk, F_K2Upper}

(* os.listdir(self.html_dir) *)
listdir(store, others) == {k \o DotHtml : k \in store} \cup others

(* s.endswith(suffix) *)
endswith(s, suffix) ==
  /\ Len(s) >= Len(suffix)
  /\ SubSeq(s, Len(s) - Len(suffix) + 1, Len(s)) = suffix

(* os.path.splitext(fname)[0]: the name up to its last dot, leading dots
   not counted *)
splitext_root(fname) ==
  LET dots == {i \in 2..Len(fname) :
                 fname[i] = "." /\ \E j \in 1..(i - 1) : fname[j] # "."}
  IN  IF dots = {} THEN fname
      ELSE SubSeq(fname, 1, (CHOOSE i \in dots : \A j \in dots : j <= i) - 1)

(* as load_html_ids, without the test of the tt prefix *)
load_all_html_ids(dir_exists, names) ==
  IF ~dir_exists THEN {}
  ELSE {splitext_root(fname) :
          fname \in {x \in names : endswith(lower(x), DotHtml)}}

(* load_html_ids: no directory, no ids; else the roots of the names that end
   with .html in any letter case and start with tt *)
load_html_ids(dir_exists, names) ==
  IF ~dir_exists THEN {}
  ELSE {splitext_root(fname) :
          fname \in {x \in names : endswith(lower(x), DotHtml)
                                      /\ startswith_tt(x)}}

(* os.path.exists(self.data_file) *)
data_file_exists(f) == f # Absent

(* outcomes of the write of clean_data_file, as for remove_write *)
clean_write(cur, html_ids) ==
  LET remaining_ids == clean_lines(cur, html_ids)
  IN  {<<remaining_ids, "ok">>, <<cur, "err">>}
        \cup {<<p, "err">> : p \in Prefixes(remaining_ids)}

(* page.reload() / driver.refresh() calls issued by one iteration *)
request_reloads(o) == 0

multi_reloads(o1, o2) ==
  IF o1 # "err" /\ HasSummaries(o1) /\ is_challenge_page("multi", o1)
    THEN 1 ELSE 0

single_reloads(o1, o2) ==
  IF o1 # "err" /\ is_challenge_page("single", o1) THEN 1 ELSE 0

selenium_reloads(o) == IF o # "err" /\ ~is_content_valid(o) THEN 1 ELSE 0

(* the content the iteration's last check looked at: res.text; html after
   the first load or after the reload; page_source *)
checked_content(v, o1, o2) ==
  IF v \in {"multi", "single"} /\ is_challenge_page(v, o1) THEN o2 ELSE o1

(* the content written to <imdb_id>.html: the html the iteration checked
   (request, multi, selenium); single: save_html writes self.page.content(),
   read again when fetch_imdb_page has returned: o3 *)
saved_content(v, o1, o2, o3) ==
  IF v = "single" THEN o3 ELSE checked_content(v, o1, o2)

(* save_imdb_html, content not valid: driver.refresh(); time.sleep(3) *)
refresh_pause(n) == [n |-> n, lo |-> 30, hi |-> 30]

(* HTMLArchiveCompressor.compress on n files (self.html_files, numbered in
   the order of the list).  fail: where an exception is raised, if anywhere:
   "start" (makedirs, the compressor, open(self.output_file, "wb")), "add"
   (tar.add of file fail.i), "remove" (os.remove of file fail.i), "close"
   (leaving the with blocks: the end of the tar stream, the flush of the
   zstd frame, the close of the output file), "none".  The loop adds file i
   to the tar stream and, unless keep_original, removes it before it goes on
   to file i + 1.  originals: the files still in the directory; archived:
   the files added to the stream; complete: the archive was finalised. *)
FailPoints(n, keep_original) ==
  {[at |-> a, i |-> 0] : a \in {"start", "close", "none"}}
    \cup {[at |-> "add", i |-> i] : i \in 1..n}
    \cup {[at |-> "remove", i |-> i] : i \in (IF keep_original THEN {} ELSE 1..n)}

compress_run(n, keep_original, fail) ==
  IF n = 0
    THEN [originals |-> {}, archived |-> {}, complete |-> FALSE,
          result |-> FALSE]
  ELSE IF fail.at = "start"
    THEN [originals |-> 1..n, archived |-> {}, complete |-> FALSE,
          result |-> FALSE]
  ELSE LET added == CASE fail.at = "add" -> fail.i - 1
                      [] fail.at = "remove" -> fail.i
                      [] OTHER -> n
           removed == IF keep_original THEN 0
                      ELSE CASE fail.at = "add" -> fail.i - 1
                             [] fail.at = "remove" -> fail.i - 1
                             [] OTHER -> n
       IN  [originals |-> (removed + 1)..n,
            archived |-> 1..added,
            complete |-> fail.at = "none",
            result |-> fail.at = "none"]

(* leading texts of the pages handed to is_content_valid *)
T_Captcha == <<"E", "n", "t", "e", "r", " ", "t", "h", "e", " ", "C", "A", "P", "T", "C", "H", "A">>
T_captcha == <<"c", "a", "p", "t", "c", "h", "a">>
T_Denied == <<"A", "c", "c", "e", "s", "s", " ", "D", "e", "n", "i", "e", "d">>
T_denied == <<"a", "c", "c", "e", "s", "s", " ", "d", "e", "n", "i", "e", "d">>
T_NoSpace == <<"a", "c", "c", "e", "s", "s", "d", "e", "n", "i", "e", "d">>
T_Plot == <<"I", "M", "D", "b", " ", "P", "l", "o", "t">>
T_Other == <<"W", "e", "l", "c", "o", "m", "e">>
HtmlTexts == {T_Captcha, T_captcha, T_Denied, T_denied, T_NoSpace, T_Plot,
              T_Other, K1, <<>>}

(* pages of the length of their text, one character below MinLength, of
   MinLength, and above it *)
HtmlPages ==
  UNION {{[text |-> x, pad |-> n] :
            n \in {0, MinLength - 1 - Len(x), MinLength - Len(x), MinLength}} :
         x \in HtmlTexts}

(* batch_process at the first key of its loop, the driver just created *)
FirstKey ==
  [fn |-> "loop", done |-> FALSE, key |-> 1, attempt |-> 0, last |-> "none",
   reloads |-> 0, pause |-> NoSleep, session |-> "up", dead_at |-> 0,
   on_dead |-> FALSE, aborted |-> FALSE, result |-> "none"]

PendingCalls ==
  {[fn |-> "read", done |-> FALSE], FirstKey}
    \cup {[fn |-> "remove", done |-> FALSE, imdb_id |-> k, result |-> "none",
           before |-> <<>>] : k \in AllKeys \cup {Short}}
    \cup {[fn |-> "clean", done |-> FALSE, result |-> "none",
           before |-> <<>>, runs |-> 0, first |-> "none", html_dir |-> d,
           others |-> o] : d \in BOOLEAN, o \in SUBSET OtherNames}
    \cup {[fn |-> "compress", done |-> FALSE, n |-> n, keep_original |-> b,
           originals |-> 1..n, archived |-> {}, complete |-> FALSE,
           result |-> FALSE] : n \in 0..MaxFiles, b \in BOOLEAN}
    \cup {[fn |-> "valid", done |-> FALSE, html |-> h, imdb_id |-> k,
           result |-> FALSE] : h \in HtmlPages, k \in AllKeys}
    \cup {[fn |-> "attempt", done |-> FALSE, o1 |-> a, o2 |-> b, o3 |-> c,
           result |-> "none", reloads |-> 0, checked |-> "none",
           saved |-> "none"] : a, b \in LoadOutcomes, c \in Contents}

FnInit ==
  /\ variant \in Variants
  /\ call \in PendingCalls
  /\ call.fn = "loop" => variant = "selenium"
  /\ file \in (IF call.fn \in {"attempt", "loop", "valid", "compress"}
                 THEN {<<>>}
               ELSE IF call.fn = "clean"
                 THEN SeqsUpTo(WideAlphabet, MaxLen) \cup {Absent}
               ELSE SeqsUpTo(WideAlphabet, MaxLen))
  /\ artifact \in (IF call.fn = "clean" /\ call.html_dir
                    THEN SUBSET AllKeys ELSE {{}})
  /\ (call.fn = "clean" /\ ~call.html_dir) => call.others = {}
  /\ blocked = {}
  /\ failedFile = Absent
  /\ phase = "call"
  /\ ids = <<>>
  /\ NoTasks
  /\ lock = 0
  /\ permits = 0
  /\ alive = FALSE
  /\ failed = <<>>
  /\ crashMid = {}
  /\ open = {}
  /\ pageFaults = FALSE

fnFrame == <<pageFaults, variant, blocked, failedFile, phase, taskVars, lock,
             permits, alive, failed, crashMid, open>>

(* read_ids / read_imdb_ids_from_file of the variant *)
read_imdb_ids_from_file ==
  /\ call.fn = "read" /\ ~call.done
  /\ ids' = read_ids(variant, file)
  /\ call' = [call EXCEPT !.done = TRUE]
  /\ UNCHANGED <<fnFrame, file, artifact>>

(* remove_id / remove_id_from_file(imdb_id); call.before: the file the call
   found *)
remove_id_from_file ==
  /\ call.fn = "remove" /\ ~call.done
  /\ \E w \in remove_write(file, file, call.imdb_id) :
       /\ file' = w[1]
       /\ call' = [call EXCEPT !.done = TRUE, !.result = w[2],
                               !.before = file]
  /\ UNCHANGED <<fnFrame, ids, artifact>>

(* IMDbDataCleaner.clean_data_file, the output directory holding the
   artifacts and call.others; no data file: return before anything is opened.
   The pass is run up to two times on the same directory; call.first: the
   result of the first pass *)
clean_data_file ==
  /\ call.fn = "clean" /\ call.runs < 2
  /\ call.runs = 1 => call.result = "ok"
  /\ IF ~data_file_exists(file)
       THEN /\ file' = file
            /\ call' = [call EXCEPT !.done = TRUE, !.result = "missing",
                                    !.before = file, !.runs = @ + 1,
                                    !.first = call.result]
       ELSE \E w \in clean_write(file, load_html_ids(call.html_dir,
                                      listdir(artifact, call.others))) :
              /\ file' = w[1]
              /\ call' = [call EXCEPT !.done = TRUE, !.result = w[2],
                                      !.before = file, !.runs = @ + 1,
                                      !.first = call.result]
  /\ UNCHANGED <<fnFrame, ids, artifact>>

(* is_content_valid(html, imdb_id) applied to the page call.html *)
validate_content ==
  /\ call.fn = "valid" /\ ~call.done
  /\ call' = [call EXCEPT
       !.done = TRUE,
       !.result = is_content_valid_html(call.html, call.imdb_id)]
  /\ UNCHANGED <<fnFrame, file, ids, artifact>>

(* HTMLArchiveCompressor.compress() *)
compress ==
  /\ call.fn = "compress" /\ ~call.done
  /\ \E fail \in FailPoints(call.n, call.keep_original) :
       LET r == compress_run(call.n, call.keep_original, fail)
       IN  call' = [call EXCEPT !.done = TRUE,
                                !.originals = r.originals,
                                !.archived = r.archived,
                                !.complete = r.complete,
                                !.result = r.result]
  /\ UNCHANGED <<fnFrame, file, ids, artifact>>

(* one iteration of the variant's retry loop on the contents call.o1 (first
   load) and call.o2 (after the reload), followed by the save when the
   iteration has a page to save (call.o3: what the page holds by then) *)
fetch_attempt ==
  /\ call.fn = "attempt" /\ ~call.done
  /\ \E x \in BOOLEAN \X BOOLEAN \X BOOLEAN :
       LET r == CASE variant = "request" -> request_attempt(call.o1)
                  [] variant = "multi" -> multi_attempt(call.o1, call.o2)
                  [] variant = "single" -> single_attempt(call.o1, call.o2)
                  [] variant = "selenium" ->
                       selenium_attempt(call.o1, x[1], x[2], x[3])
       IN
       call' = [call EXCEPT
         !.done = TRUE,
         !.result = r,
         !.checked = IF r = Ok
                       THEN checked_content(variant, call.o1, call.o2)
                       ELSE "none",
         !.saved = IF r = Ok
                     THEN saved_content(variant, call.o1, call.o2, call.o3)
                     ELSE "none",
         !.reloads =
           CASE variant = "request" -> request_reloads(call.o1)
             [] variant = "multi" -> multi_reloads(call.o1, call.o2)
             [] variant = "single" -> single_reloads(call.o1, call.o2)
             [] variant = "selenium" -> selenium_reloads(call.o1)]
  /\ UNCHANGED <<fnFrame, file, ids, artifact>>

(* save_imdb_html: one iteration of for attempt in range(self.retries + 1):
   driver.get on the session as it is, page_source, is_content_valid; not
   valid: refresh and time.sleep(3); exception: health check, restart of a
   dead session (return False when it fails), backoff sleep if an iteration
   is left.  session: "up", "new" (restarted), "dead" (failed the health
   check and was not replaced) *)
save_imdb_html_iteration ==
  /\ call.fn = "loop" /\ ~call.done /\ ~call.aborted
  /\ \E o \in LoadOutcomes, x \in BOOLEAN \X BOOLEAN \X BOOLEAN :
       LET a == call.attempt + 1
           r == selenium_attempt(o, x[1], x[2], x[3])
           found_dead == r \in {Fail, Abort} /\ x[2]
           again == r \in {Fail, Again} /\ more_attempts("selenium", a)
       IN
       call' = [call EXCEPT
         !.attempt = a,
         !.last = r,
         !.on_dead = call.on_dead \/ call.session = "dead",
         !.reloads = selenium_reloads(o),
         !.session = IF found_dead
                       THEN (IF x[3] THEN "new" ELSE "dead")
                       ELSE call.session,
         !.dead_at = IF found_dead THEN a ELSE call.dead_at,
         !.pause = CASE r = Again -> refresh_pause(a)
                     [] r = Fail /\ again -> backoff("selenium", a)
                     [] OTHER -> NoSleep,
         !.done = ~again,
         !.result = IF r = Ok THEN Ok ELSE IF again THEN "none" ELSE Fail]
  /\ UNCHANGED <<fnFrame, file, ids, artifact>>

(* batch_process: save_imdb_html has returned; next id of the for loop:
   health check (self.driver.current_url), a dead session is restarted, and
   if that fails the loop breaks *)
batch_process_next ==
  /\ call.fn = "loop" /\ call.done /\ call.key = 1
  /\ \E up \in {b \in BOOLEAN : b => call.session # "dead"},
        restartOk \in BOOLEAN :
       call' = IF ~up /\ ~restartOk
                 THEN [call EXCEPT !.aborted = TRUE, !.key = 2,
                                   !.session = "dead"]
                 ELSE [FirstKey EXCEPT
                         !.key = 2,
                         !.session = IF up THEN call.session ELSE "new",
                         !.on_dead = call.on_dead]
  /\ UNCHANGED <<fnFrame, file, ids, artifact>>

FnNext ==
  \/ read_imdb_ids_from_file
  \/ remove_id_from_file
  \/ clean_data_file
  \/ fetch_attempt
  \/ save_imdb_html_iteration
  \/ batch_process_next
  \/ validate_content
  \/ compress

FnSpec == FnInit /\ [][FnNext]_vars

(* ============================ properties =============================== *)
PendingKeys == Range(read_ids(variant, file))

(* the step ends a remove of task t (not by the death of the process) *)
RemoveEnds(t) ==
  /\ pc[t] \in {"remove", "rm_write"}
  /\ pc'[t] \notin {"remove", "rm_write", "idle"}

(* C1: in the concurrent variants no two read-filter-write cycles of remove
   overlap, and once every worker has finished, every key whose remove went
   through is absent from the file: no removal is undone by another worker's
   rewrite. *)
RemoveCyclesSerialized ==
  /\ Cardinality({t \in Tasks : pc[t] = "rm_write"}) <= 1
  /\ (variant \in Concurrent /\ phase \in {"running", "done", "fatal"} /\ AllDone)
       => \A t \in Loaded : rmOut[t] = "ok" => ids[t] \notin KeysOf(file)

(* a worker is inside the rewrite while another one waits for the lock and a
   third one has already removed its key *)
RemoveContended ==
  /\ variant = "request"
  /\ \E t, u, w \in Loaded :
       /\ pc[t] = "rm_write" /\ lock = t
       /\ pc[u] = "remove"
       /\ rmOut[w] = "ok" /\ ids[w] # ids[t]

(* C2: at every point of a run, a key that was loaded and is no longer in
   the file has its artifact on disk. *)
AbsentOnlyIfSaved ==
  phase \in {"running", "done", "fatal"} =>
    \A t \in Loaded :
      ids[t] \notin KeysOf(file) => ids[t] \in artifact

(* C3: when a remove(k) ends with an I/O error, every key other than k that
   the next load would have returned before the call is still returned by it
   after the call. *)
RemoveFaultKeepsOthers ==
  [][\A t \in Tasks :
       (RemoveEnds(t) /\ rmOut'[t] = "err")
         => \A k \in PendingKeys \ {ids[t]} : k \in PendingKeys']_vars

(* C4: a key whose artifact was saved and whose remove had not started when
   the process crashed is in the file and is returned by the next load. *)
AtLeastOnce ==
  phase = "crashed" => crashMid \subseteq PendingKeys

(* C5: at the end of a run that loaded keys and in which no remove raised an
   error, the number of keys loaded equals the number still pending plus the number that
   succeeded, and every key that gave up is still in the file. *)
QueueConservation ==
  (phase = "done" /\ ids # <<>> /\ \A t \in Loaded : rmOut[t] # "err") =>
    /\ Len(ids) = Len(read_ids(variant, file))
                    + Cardinality({t \in Loaded : res[t] = "ok"})
    /\ \A t \in Loaded : res[t] = "fail" => ids[t] \in PendingKeys

(* C6: at the end of a run every key of the failed list is still in the
   file. *)
FailedStillPending ==
  phase = "done" => \A i \in 1..Len(failed) : failed[i] \in PendingKeys

(* C7: for every key and every file content the run goes through, removing
   twice gives the file that removing once gives, removing a key that is not
   in the file gives the file itself, and a remove of an absent key that
   the program performs leaves the file as it was. *)
IdempotentRemoval ==
  /\ [](\A k \in AllKeys \cup {Junk} :
          /\ remove_lines(remove_lines(file, k), k) = remove_lines(file, k)
          /\ k \notin KeysOf(file) => remove_lines(file, k) = file)
  /\ [][\A t \in Tasks :
          (RemoveEnds(t) /\ rmOut'[t] = "ok" /\ ids[t] \notin KeysOf(file))
            => file' = file]_vars

(* two tasks of the same key have both removed it: the second remove found
   the key absent *)
RemovedTwice ==
  \E t, u \in Loaded :
    t # u /\ ids[t] = ids[u] /\ rmOut[t] = "ok" /\ rmOut[u] = "ok"

(* C8: the number of workers inside the fetch protocol never exceeds the
   configured limit (one in the sequential variants), whatever the number of
   keys, and each of them works on one loaded key. *)
BoundedConcurrency ==
  /\ Cardinality({t \in Tasks : Active(t)})
       <= (IF variant \in Concurrent THEN CONCURRENCY ELSE 1)
  /\ \A t \in Tasks : Active(t) => t \in Loaded
  /\ permits >= 0

(* the pool is full and a key is waiting *)
PoolSaturated ==
  /\ variant \in Concurrent
  /\ Cardinality({t \in Tasks : Active(t)}) = CONCURRENCY
  /\ permits = 0
  /\ \E t \in Loaded : pc[t] = "queued"

(* C9: a key whose every load returns challenge content is never handed to
   save, never removed and never returned as a success, and when its retry
   loop ends it has run exactly RETRY_COUNT iterations. *)
ChallengeEscalationBound ==
  \A t \in Loaded :
    ids[t] \in blocked =>
      /\ pc[t] \notin {"save", "remove", "rm_write"}
      /\ res[t] # "ok"
      /\ rmOut[t] = "none"
      /\ pc[t] = "failed" => attempt[t] = RETRY_COUNT

(* C10 as stated: no task starts more than RETRY_COUNT iterations of its
   retry loop (each iteration issues one navigation). *)
AttemptsWithinRetryCount ==
  \A t \in Tasks : attempt[t] <= RETRY_COUNT

(* C10 as amended: no task starts more than RETRY_COUNT iterations of its
   retry loop, RETRY_COUNT + 1 in the Selenium variant, where the option
   counts the retries after the first attempt. *)
AttemptsWithinBudget ==
  \A t \in Tasks :
    attempt[t] <= (IF variant = "selenium" THEN RETRY_COUNT + 1 ELSE RETRY_COUNT)

(* a Selenium task gave up after RETRY_COUNT + 1 navigations *)
SeleniumBudgetSpent ==
  \E t \in Loaded :
    variant = "selenium" /\ pc[t] = "failed" /\ attempt[t] = RETRY_COUNT + 1

(* C13: at the end of a run that loaded keys, the failure report holds
   exactly the keys the run gave up on, one per line, and it is absent or
   empty when the run gave up on none, whatever an earlier run left. *)
ReportMatchesRun ==
  (phase = "done" /\ ids # <<>>) =>
    IF failed = <<>>
      THEN failedFile \in {Absent, <<>>}
      ELSE failedFile = failed

(* some step of the run other than the death of the process can be taken *)
Progress ==
  \/ \E t \in Tasks :
        \/ request_worker(t) \/ request_give_up(t) \/ request_save_html(t)
        \/ request_remove_read(t) \/ request_remove_write(t)
        \/ multi_fetch_one(t) \/ multi_give_up(t) \/ multi_save_html(t)
        \/ multi_remove_close(t)
        \/ single_fetch_imdb_page(t) \/ single_give_up(t)
        \/ single_save_html(t) \/ single_remove_id_from_file(t)
        \/ selenium_batch_process(t) \/ selenium_give_up(t)
        \/ selenium_write_html(t) \/ selenium_remove_id_from_file(t)
  \/ request_run \/ multi_main \/ single_run \/ selenium_run

(* C14: the failure of a key never keeps another loaded key from being
   dispatched and from reaching its own outcome: a run that ended has
   brought every loaded key to success or failure, while it runs some step
   of some key can always be taken, the step of one key changes no other
   key, and keys are given up undispatched only in the Selenium variant when
   the driver is dead and cannot be restarted. *)
FailureContainment ==
  /\ [](/\ (phase = "done" /\ ids # <<>>) =>
             \A t \in Loaded :
               \/ pc[t] = "done" /\ res[t] \in {"ok", "fail"}
               \/ variant = "selenium" /\ pc[t] = "skipped"
        /\ phase = "running" => ENABLED Progress)
  /\ [][/\ \A q \in Tasks :
             (pc[q] = "queued" /\ pc'[q] = "skipped")
               => (variant = "selenium" /\ ~alive' /\ open' = {})
         /\ \A t, u \in Tasks :
             (t # u /\ pc'[t] # pc[t] /\ pc'[u] # pc[u])
               => (phase' = "crashed" \/ pc'[u] = "skipped")]_vars

(* a run ended in which a key failed and a key loaded after it succeeded,
   and one in which a key failed after an earlier one had succeeded *)
FailureContained ==
  /\ phase = "done"
  /\ \E t, u \in Loaded : t < u /\ res[t] = "fail" /\ res[u] = "ok"

(* C16: a run whose load yields no key (empty file, no valid line, or a file
   that cannot be opened) ends at once: no backend or session is opened, no
   key is dispatched, and the step leaves the pending-key file, the
   artifacts and the failure report as they were. *)
NoKeysNoOp ==
  /\ []((ids = <<>> /\ phase \notin {"init", "crashed"}) =>
          /\ phase = "done"
          /\ open = {} /\ permits = 0 /\ ~alive
          /\ artifact = {} /\ failedFile = Absent /\ failed = <<>>
          /\ \A t \in Tasks : pc[t] = "idle" /\ attempt[t] = 0)
  /\ [][(phase' = "done" /\ ids' = <<>>) =>
          UNCHANGED <<file, artifact, failedFile, open, attempt, failed>>]_vars

(* the run ended at once because the file, which holds keys, could not be
   opened *)
QueueUnavailable ==
  phase = "done" /\ ids = <<>> /\ read_ids(variant, file) # <<>>

(* C17: when the backend cannot be initialised the run ends there: keys are
   processed only after the backend has started, and after a failed start
   every loaded key is still undispatched, none is counted as succeeded or
   failed, no artifact or report is written, the pending-key file is as it
   was at the start and no further step is taken. *)
StartupFailureIsFatal ==
  /\ [](/\ ((phase = "running" /\ \A t \in Loaded : pc[t] = "queued")
              => (variant = "request" \/ 0 \in open))
        /\ (phase = "fatal" /\ \E t \in Loaded : pc[t] = "queued") =>
             /\ \A t \in Loaded :
                  /\ pc[t] = "queued" /\ attempt[t] = 0
                  /\ res[t] = "none" /\ rmOut[t] = "none"
             /\ failed = <<>> /\ artifact = {} /\ failedFile = Absent
             /\ ids = read_ids(variant, file))
  /\ [][/\ (phase \in {"init", "setup"}
              => UNCHANGED <<file, artifact, failedFile>>)
         /\ ((phase = "setup" /\ phase' = "fatal")
              => UNCHANGED <<taskVars, failed>>)
         /\ phase # "fatal"]_vars

(* the Selenium driver could not be created: two keys loaded, none
   dispatched *)
StartupFailed ==
  /\ variant = "selenium" /\ phase = "fatal" /\ open = {}
  /\ Len(ids) = 2 /\ \A t \in Loaded : pc[t] = "queued"

(* the bounds of the sleep after the failure of iteration n, from the
   parameters of the variant *)
DelayBounds(v, n) ==
  <<backoffBase(v) + n * backoffIncrement(v) + jitterRange(v)[1],
    backoffBase(v) + n * backoffIncrement(v) + jitterRange(v)[2]>>

(* C18: the sleep after the failure of iteration n is drawn from
   base + n * increment + jitterMin .. base + n * increment + jitterMax, and
   both bounds are above those of the sleeps after the earlier
   iterations. *)
BackoffBounds ==
  \A t \in Tasks :
    slept[t].n > 0 =>
      /\ <<slept[t].lo, slept[t].hi>> = DelayBounds(variant, slept[t].n)
      /\ \A m \in 1..(slept[t].n - 1) :
           /\ DelayBounds(variant, m)[1] < slept[t].lo
           /\ DelayBounds(variant, m)[2] < slept[t].hi

(* C19: every backoff sleep of a key is followed by another iteration of its
   retry loop: the last sleep came after an iteration before the current
   one, so a key goes to Failed without sleeping after its final failed
   attempt. *)
SleepOnlyBeforeRetry ==
  \A t \in Tasks : slept[t].n > 0 => slept[t].n < attempt[t]

(* C21: an iteration whose page source fails validation issues at
   most one reload and then does what an iteration that raised does: the
   backoff sleep of the retry policy if an iteration is left, no sleep if
   none is left, the iteration counted against the budget. *)
ValidationFailureAsTransient ==
  (call.fn = "loop" /\ call.last = Again) =>
    /\ call.reloads <= 1
    /\ call.attempt <= last_attempt("selenium")
    /\ call.done = ~more_attempts("selenium", call.attempt)
    /\ call.pause = IF call.done THEN NoSleep
                    ELSE backoff("selenium", call.attempt)

(* C23: no navigation is issued on a session that failed its health check:
   the session is restarted before the next iteration of the key and before
   the next key, and when the restart fails inside the retry loop of a key
   that key has failed at once. *)
DeadSessionReplaced ==
  call.fn = "loop" =>
    /\ ~call.on_dead
    /\ (call.session = "dead" /\ ~call.aborted) =>
         /\ call.done /\ call.result = Fail
         /\ call.attempt = call.dead_at
    /\ (call.dead_at > 0 /\ call.attempt > call.dead_at /\ ~call.aborted) =>
         call.session = "new"

(* the second key is being fetched on a session that was restarted after
   the first key had ended on a dead one *)
NextKeyOnNewSession ==
  /\ call.fn = "loop" /\ call.key = 2 /\ call.attempt >= 1
  /\ call.session = "new" /\ call.dead_at = 0

(* C24 as stated: once the session was found dead in an iteration of a key,
   that key starts no further iteration. *)
FatalErrorGivesUp ==
  (call.fn = "loop" /\ call.dead_at > 0) => call.attempt = call.dead_at

(* C24 as amended: when the session is found dead and cannot be restarted,
   the key has failed at once, whatever is left of its budget; when the
   restart succeeds the key goes on with the iterations left, on the new
   session. *)
FatalErrorGivesUpUnlessRestarted ==
  (call.fn = "loop" /\ call.dead_at > 0 /\ ~call.aborted) =>
    IF call.session = "dead"
      THEN call.done /\ call.result = Fail /\ call.attempt = call.dead_at
      ELSE /\ call.session = "new"
           /\ call.attempt <= last_attempt("selenium")
           /\ (call.attempt = call.dead_at /\ call.last = Fail)
                => call.done = ~more_attempts("selenium", call.attempt)

(* the key failed in its first iteration, with two iterations left, because
   the dead session could not be restarted *)
GaveUpWithBudgetLeft ==
  /\ call.fn = "loop" /\ call.done /\ call.session = "dead"
  /\ call.attempt = 1 /\ call.result = Fail /\ ~call.aborted

(* C30: in a concurrent run no two workers that are inside the fetch
   protocol at the same time fetch on the same session, and the session a
   worker fetches on is open. *)
ExclusiveSessions ==
  variant \in Concurrent =>
    /\ \A t, u \in Tasks :
         (t # u /\ Active(t) /\ Active(u))
           => session_of(variant, t) # session_of(variant, u)
    /\ \A t \in Tasks : Active(t) => session_of(variant, t) \in open

(* two workers of the asyncio variant are inside the fetch protocol, each
   with its own context open *)
TwoContextsOpen ==
  /\ variant = "multi"
  /\ \E t, u \in Loaded :
       t # u /\ Active(t) /\ Active(u) /\ {t, u} \subseteq open

(* C25: once the batch loop has given up the keys left (the dead session
   could not be restarted) no key is dispatched any more; a key given up
   has made no attempt and has no result, the counts of the summary cover
   the dispatched keys only, and a key of which no entry was dispatched is
   still returned by a load of the file. *)
AbortLeavesRestPending ==
  /\ [](\A t \in Loaded :
          pc[t] = "skipped" =>
            /\ variant = "selenium"
            /\ attempt[t] = 0 /\ res[t] = "none" /\ rmOut[t] = "none"
            /\ summary_succeeded + summary_failed
                 = Cardinality({u \in Loaded : pc[u] = "done"})
            /\ (\A u \in Loaded : ids[u] = ids[t] => pc[u] = "skipped")
                 => ids[t] \in PendingKeys)
  /\ [][(\E t \in Loaded : pc[t] = "skipped") =>
          \/ phase' = "crashed"
          \/ UNCHANGED <<pc, attempt, res, file, artifact, failed>>]_vars

(* C26: a remove(k) that ends with an I/O error leaves the run going and
   the other keys as they are, leaves k in the file with its artifact on
   disk, and k is returned as a success: at the end of the run it is not in
   the failed list (when no key was loaded twice). *)
RemoveFailureNonFatal ==
  /\ []((phase = "done" /\ Cardinality(Range(ids)) = Len(ids)) =>
          \A t \in Loaded :
            rmOut[t] = "err" => res[t] = "ok" /\ ids[t] \notin Range(failed))
  /\ [][\A t \in Tasks :
          (RemoveEnds(t) /\ rmOut'[t] = "err") =>
            /\ phase' = "running"
            /\ res'[t] = "ok" /\ failed' = failed
            /\ \A u \in Tasks \ {t} : pc'[u] = pc[u]
            /\ ids[t] \in artifact'
            /\ ids[t] \in KeysOf(file) => ids[t] \in KeysOf(file')]_vars

(* C27: in the summary of a run that loaded keys, succeeded plus failed is
   the total; when no key was loaded twice, succeeded is the number of keys
   whose artifact was saved in the run and no key that succeeded is in the
   failed list. *)
SummaryAddsUp ==
  (phase = "done" /\ ids # <<>>) =>
    /\ summary_succeeded + summary_failed = summary_total
    /\ Cardinality(Range(ids)) = Len(ids) =>
         /\ summary_succeeded = Cardinality(artifact)
         /\ \A t \in Loaded :
              res[t] = "ok" => ids[t] \notin Range(failed)

(* the terminal state of a key: its worker has returned success or
   failure *)
Terminal(t) == pc[t] = "done" /\ res[t] \in {"ok", "fail"}

(* within one key: Pending, then the fetch protocol, then one terminal
   state that is never left and whose result never changes *)
KeySequence(t) ==
  /\ pc[t] = "queued" => pc'[t] \in {"queued", "save", "failed", "done", "skipped"}
  /\ Active(t) => (Active(t))' \/ (Terminal(t))'
  /\ Terminal(t) => (Terminal(t))' /\ res'[t] = res[t]
  /\ pc[t] = "skipped" => pc'[t] = "skipped"

(* C29 as stated: in a run that is not killed every loaded key eventually
   reaches one terminal state, success or failure, and the run reports its
   summary; within a key the states follow in sequence. *)
EveryKeyTerminates ==
  /\ <>(phase = "done" /\ \A t \in Loaded : Terminal(t))
  /\ [][\A t \in Tasks : KeySequence(t)]_vars

(* C29 as amended: in a run that is not killed the run eventually ends,
   with its summary or with a fatal exit; when it ends with the summary
   every loaded key has reached one terminal state, success or failure, or,
   in the Selenium variant, was left undispatched by the abort of the batch
   loop; when it ends with a fatal exit either no key was dispatched (the
   backend did not start) or every key has reached its terminal state (the
   backend could not be closed); within a key the states follow in
   sequence. *)
RunTerminates ==
  /\ <>(phase \in {"done", "fatal"})
  /\ [](/\ phase = "done" =>
             \A t \in Loaded :
               Terminal(t) \/ (variant = "selenium" /\ pc[t] = "skipped")
        /\ phase = "fatal" =>
             \/ \A t \in Loaded : pc[t] = "queued"
             \/ variant \in {"multi", "single"} /\ \A t \in Loaded : Terminal(t))
  /\ [][\A t \in Tasks : KeySequence(t)]_vars

(* a run of the thread-pool variant has reported its summary: two keys, of
   which the first failed and the second succeeded *)
BothKeysReported ==
  /\ variant = "request" /\ phase = "done" /\ Len(ids) = 2
  /\ \A t \in Loaded : Terminal(t)
  /\ res[1] = "fail" /\ res[2] = "ok"
  /\ failedFile = <<ids[1]>>

(* C22: in the Playwright variants a first load whose summaries block never
   appears (the wait for the marker times out) does not make the iteration
   fail: its content goes on to the challenge check, which sends challenge
   content to the reload and lets any other content through to the save. *)
MarkerTimeoutNotFatal ==
  (call.fn = "attempt" /\ call.done /\ variant \in {"multi", "single"}
     /\ call.o1 \in Contents /\ ~HasSummaries(call.o1)) =>
    IF is_challenge_page(variant, call.o1)
      THEN call.reloads = 1
      ELSE call.result = Ok /\ call.checked = call.o1

(* C28: the content written for a key is the content the iteration checked
   last, and it is not a challenge page. *)
SavedContentChecked ==
  (call.fn = "attempt" /\ call.done /\ call.result = Ok) =>
    /\ call.saved = call.checked
    /\ ~ChallengeContent(call.saved)

(* C15: a worker that has returned has no session open, and when the run
   has ended (normally or with a fatal error) no session is open. *)
SessionsClosed ==
  /\ \A t \in Loaded : pc[t] = "done" => t \notin open
  /\ phase \in {"done", "fatal"} => open = {}

(* fname is <id_>.html, the extension in any letter case *)
IsHtmlOf(fname, id_) ==
  /\ Len(fname) = Len(id_) + Len(DotHtml)
  /\ SubSeq(fname, 1, Len(id_)) = id_
  /\ lower(SubSeq(fname, Len(id_) + 1, Len(fname))) = DotHtml

(* the HTML directory of a clean pass holds an artifact of id_: a file of
   the tt prefix named <id_>.html *)
HasArtifact(id_) ==
  /\ startswith_tt(id_)
  /\ \E fname \in listdir(artifact, call.others) : IsHtmlOf(fname, id_)

(* the key format: the prefix and the length *)
ValidKey(k) == startswith_tt(k) /\ Len(k) >= 9

Stripped(f) == [i \in 1..Len(f) |-> strip(f[i])]

(* C11: the load returns, in file order, exactly the stripped lines of the
   file that start with the key prefix and have the length of a key; a blank
   line, a line such as notakey and a too short tt line are never
   returned. *)
LoadReturnsValidKeys ==
  (call.fn = "read" /\ call.done) =>
    /\ ids = Stripped(SelectSeq(file, LAMBDA line : ValidKey(strip(line))))
    /\ \A i \in 1..Len(ids) : ids[i] \notin {Junk, Short, <<>>}

(* C12 as stated: after a completed rewrite of the file by remove or by the
   clean pass, every line of the file matches the key-format predicate. *)
RewriteDropsMalformed ==
  (call.fn \in {"remove", "clean"} /\ call.done /\ call.result = "ok") =>
    \A i \in 1..Len(file) : IsKeyLine(variant, file[i])

(* C12 as amended: a completed remove(key) leaves, unchanged and in order,
   exactly the lines whose stripped text differs from key, whether or not
   they match the key format; a completed clean pass leaves, stripped and in
   order, exactly the non-blank lines whose text is not the name of a saved
   artifact, whether or not they match the key format. *)
RewriteKeepsOtherLines ==
  (call.fn \in {"remove", "clean"} /\ call.done /\ call.result = "ok") =>
    IF call.fn = "remove"
      THEN file = SelectSeq(call.before, LAMBDA line : strip(line) # call.imdb_id)
      ELSE file = SelectSeq(Stripped(call.before),
                       LAMBDA id_ : id_ # <<>> /\ ~HasArtifact(id_))

(* a clean pass dropped the key of a saved artifact and a blank line and
   kept a malformed line and a padded key, which it stripped *)
CleanKeptMalformed ==
  /\ call.fn = "clean" /\ call.done /\ call.result = "ok"
  /\ artifact = {K1}
  /\ call.before = <<K1, Junk, K2Pad>>
  /\ file = <<Junk, K2>>

(* C20: in one iteration whose first load returns challenge content, one
   reload is issued and its content is checked again: still a challenge, the
   iteration fails; no longer a challenge, the iteration succeeds. *)
OneReloadPerChallenge ==
  (call.fn = "attempt" /\ call.done /\ variant # "selenium"
     /\ ChallengeContent(call.o1)) =>
    /\ call.reloads = 1
    /\ ChallengeContent(call.o2) => call.result = Fail
    /\ (call.o2 \in Contents /\ ~ChallengeContent(call.o2))
         => call.result = Ok

(* the leading texts that carry an access-denial marker in some letter case,
   and those that carry one of the topical keywords *)
DenialTexts == {T_Captcha, T_captcha, T_Denied, T_denied}
TopicalTexts == {T_Plot, K1}

(* C31: is_content_valid returns false when the page is shorter than the
   minimum length or carries an access-denial marker (captcha, access
   denied, in any letter case), and true in every other case; a page of
   sufficient length without a marker is accepted whether or not it carries
   a topical keyword. *)
ValidIffLongAndNotDenied ==
  (call.fn = "valid" /\ call.done) =>
    /\ call.result = (/\ html_len(call.html) >= MinLength
                      /\ call.html.text \notin DenialTexts)
    /\ (/\ html_len(call.html) >= MinLength
        /\ call.html.text \notin DenialTexts
        /\ call.html.text \notin TopicalTexts) => call.result = TRUE

(* a page of exactly the minimum length that carries neither a marker nor a
   topical keyword was accepted *)
KeywordlessPageAccepted ==
  /\ call.fn = "valid" /\ call.done
  /\ call.html.text = T_Other
  /\ html_len(call.html) = MinLength
  /\ call.result = TRUE

(* C32: remove(k) changes nothing but the lines that hold k: whatever the
   outcome of the call, the other lines of the file are kept, unchanged and
   in their order, and after a remove that went through the file is the file
   before without the lines that hold k. *)
RemoveKeepsOtherLines ==
  (call.fn = "remove" /\ call.done) =>
    /\ SelectSeq(file, LAMBDA line : strip(line) # call.imdb_id)
         = SelectSeq(call.before, LAMBDA line : strip(line) # call.imdb_id)
    /\ call.result = "ok" =>
         /\ file = SelectSeq(call.before,
                      LAMBDA line : strip(line) # call.imdb_id)
         /\ call.imdb_id \notin KeysOf(file)

(* C33 as stated: a clean pass that completes leaves exactly the non-blank
   stripped lines of the file it found for which the HTML directory holds no
   file <id>.html, in their order; a second pass on the same directory
   leaves the file as the first one left it; without a data file nothing is
   written. *)
CleanKeepsIdsWithoutHtmlFile ==
  (call.fn = "clean" /\ call.done) =>
    /\ call.result = "ok" =>
         file = SelectSeq(Stripped(call.before),
                  LAMBDA id_ : /\ id_ # <<>>
                               /\ id_ \o DotHtml
                                    \notin listdir(artifact, call.others))
    /\ (call.runs = 2 /\ call.result = "ok") => file = call.before
    /\ ~data_file_exists(call.before)
         => call.result = "missing" /\ ~data_file_exists(file)

(* C33 as amended: a clean pass that completes leaves exactly the non-blank
   stripped lines of the file it found that are not the id of an artifact,
   in their order, an artifact of an id being a file of the HTML directory
   whose name starts with tt and is the id followed by .html in any letter
   case; a line that does not start with tt is kept whatever the directory
   holds; a second pass on the same directory leaves the file as the first
   one left it; without a data file nothing is written. *)
CleanKeepsIdsWithoutArtifact ==
  (call.fn = "clean" /\ call.done) =>
    /\ call.result = "ok" =>
         /\ file = SelectSeq(Stripped(call.before),
                      LAMBDA id_ : id_ # <<>> /\ ~HasArtifact(id_))
         /\ \A i \in 1..Len(call.before) :
              (~startswith_tt(strip(call.before[i]))
                 /\ strip(call.before[i]) # <<>>)
                => strip(call.before[i]) \in Range(file)
    /\ (call.runs = 2 /\ call.result = "ok") => file = call.before
    /\ ~data_file_exists(call.before)
         => call.result = "missing" /\ ~data_file_exists(file)

(* the second of two clean passes has completed on a directory that holds
   notakey.html and tt0000002.HTML: it found the lines notakey and tt0000001
   and left both *)
CleanedTwice ==
  /\ call.fn = "clean" /\ call.runs = 2 /\ call.result = "ok"
  /\ call.others = {F_Junk, F_K2Upper} /\ artifact = {}
  /\ call.before = <<Junk, K1>>
  /\ file = <<Junk, K1>>

(* C34: when compress() of a compressor that does not keep the originals
   returns False, every HTML file it found is still in the directory, and
   whenever one of them is gone the archive was completely written. *)
CompressFailureKeepsOriginals ==
  (call.fn = "compress" /\ call.done /\ ~call.keep_original) =>
    /\ ~call.result => call.originals = 1..call.n
    /\ call.originals # 1..call.n => call.complete

====
